---------------------------- MODULE Spec2Model ----------------------------
(***************************************************************************)
(* A model of react-app-guide: the StepTour component (navigation state    *)
(* machine: src/src/StepTour.tsx) and the HighlightTour component it       *)
(* renders for a step (target acquisition, geometry, keyboard:             *)
(* src/src/HighlightTour.tsx), run by React.                               *)
(*                                                                         *)
(* React is modelled at the level the code depends on:                     *)
(*  - a render captures the props and the state in a closure (the record   *)
(*    r); the event handlers of the committed tree read that closure;      *)
(*  - the setState calls of one handler or effect are batched: they are    *)
(*    applied in order to the pending state (index, showIntro, showOutro)  *)
(*    and ask for one new render (stDirty);                                *)
(*  - refs (introShownRef, stepsRef) are read and written at once;         *)
(*  - after a commit the effects whose dependencies changed run in         *)
(*    declaration order, with the closure of that render; a render pass,   *)
(*    its commit and its effects are one step (Render);                    *)
(*  - an event of the user, the caller or the page is handled when no      *)
(*    render is pending (Quiescent).                                       *)
(* The caller is the one of the README: it owns open, steps, intro and     *)
(* outro, and its onClose sets open to false.                              *)
(*                                                                         *)
(* log holds the callbacks invoked since the last event began, and last    *)
(* that event; both are history, read by the properties only.              *)
(*                                                                         *)
(* Specifications: Spec (any caller, a page that stays as it is), SpecPage *)
(* (a fixed list of steps on a page that changes), SpecGeom (one resolved  *)
(* step under every layout), SpecScroll (a page that styles its overflow), *)
(* SpecBurst (the forward action called twice before a render), SpecRace  *)
(* (keys pressed between the effects of a commit and the next render).     *)
(***************************************************************************)
EXTENDS Integers, Sequences, FiniteSets, TLC

VARIABLES
    open,           \* prop open, as the caller holds it
    steps,          \* prop steps: [ver, len], descriptor i of list ver
    intro,          \* prop intro: 0 when absent, else the object's identity
    outro,          \* prop outro: whether one is supplied
    index,          \* useState(0)
    showIntro,      \* useState(false)
    showOutro,      \* useState(false)
    introShownRef,  \* useRef(false)
    stepsRef,       \* useRef(steps)
    mounted,        \* StepTour has committed a first render
    r,              \* closure of the last committed render of StepTour
    stDirty,        \* a render of StepTour is pending
    hl,             \* the HighlightTour instance: its state, closure, subscriptions
    dom,            \* document: per selector the element it matches (0: none)
    geom,           \* bounding box the page layout gives the target element
    viewport,       \* window.innerWidth / innerHeight
    hasMO,          \* typeof MutationObserver !== "undefined" && document.body
    scroll,         \* document.documentElement.style.overflow, and the value
                    \* the scroll-lock effect holds for its cleanup
    prior,          \* the overflow the page had when the tour was last closed
    log,            \* callbacks invoked since the last event began
    last            \* the last event: what was asked, in which phase

vars == <<open, steps, intro, outro, index, showIntro, showOutro,
          introShownRef, stepsRef, mounted, r, stDirty, hl, dom, geom,
          viewport, hasMO, scroll, prior, log, last>>

-----------------------------------------------------------------------------
(* Bounds *)

MaxSteps == 3
MaxVer == 1
PageSteps == 2

-----------------------------------------------------------------------------
(* Descriptors and callbacks *)

None == [ver |-> -1, i |-> -1]

\* steps[i] of a list, undefined (None) out of range
StepAt(list, i) ==
    IF 0 <= i /\ i < list.len THEN [ver |-> list.ver, i |-> i] ELSE None

StepLists == [ver : 0..MaxVer, len : 0..MaxSteps]

Cb(cb, who, d) == [cb |-> cb, who |-> who, ver |-> d.ver, i |-> d.i]

\* d?.onEnter?.() and d?.onNext?.() of a step descriptor
CallStep(S, cb, d) ==
    IF d = None THEN S
    ELSE [S EXCEPT !.log = Append(@, Cb(cb, "step", d))]

Call(S, cb, who) == [S EXCEPT !.log = Append(@, Cb(cb, who, None))]

\* the state the handlers and effects of StepTour act on
Store ==
    [index |-> index, showIntro |-> showIntro, showOutro |-> showOutro,
     latch |-> introShownRef, stepsRef |-> stepsRef, open |-> open,
     log |-> log]

Apply(S) ==
    /\ index' = S.index
    /\ showIntro' = S.showIntro
    /\ showOutro' = S.showOutro
    /\ introShownRef' = S.latch
    /\ stepsRef' = S.stepsRef
    /\ open' = S.open
    /\ log' = S.log

-----------------------------------------------------------------------------
(* StepTour: what the committed render shows *)

\* the branches of the render function, in their order
ShownBy(R) ==
    IF ~R.open THEN "none"
    ELSE IF R.showIntro /\ R.intro # 0 THEN "intro"
    ELSE IF R.showOutro /\ R.outro THEN "outro"
    ELSE IF R.current = None THEN "blank"
    ELSE "step"

Shown == IF mounted THEN ShownBy(r) ELSE "none"

-----------------------------------------------------------------------------
(* StepTour: the handlers, acting on the store with the closure r *)

\* the caller's onClose, as in the README: () => setOpen(false)
CallerOnClose(S) == [Call(S, "onClose", "tour") EXCEPT !.open = FALSE]

\* handleClose that does not tell the caller
handleCloseSilent(S) ==
    [S EXCEPT !.showIntro = FALSE, !.showOutro = FALSE, !.index = 0,
              !.latch = FALSE]

handleClose(S) ==
    CallerOnClose([S EXCEPT !.showIntro = FALSE, !.showOutro = FALSE,
                            !.index = 0, !.latch = FALSE])

\* handleNext with hasNext off by one
handleNextOffByOne(S) ==
    LET S1 == CallStep(S, "onNext", r.current)
        hasNext == r.index + 1 <= S.stepsRef.len
    IN  IF hasNext THEN [S1 EXCEPT !.index = @ + 1]
        ELSE IF r.outro
             THEN [Call(S1, "onEnter", "outro") EXCEPT !.showOutro = TRUE]
             ELSE handleClose(S1)

handleNext(S) ==
    LET S1 == CallStep(S, "onNext", r.current)
        hasNext == r.index + 1 < S.stepsRef.len
    IN  IF hasNext THEN [S1 EXCEPT !.index = @ + 1]
        ELSE IF r.outro
             THEN [Call(S1, "onEnter", "outro") EXCEPT !.showOutro = TRUE]
             ELSE handleClose(S1)

Max(a, b) == IF a >= b THEN a ELSE b
Min(a, b) == IF a <= b THEN a ELSE b

\* handlePrev that steps back twice
handlePrevTwice(S) ==
    IF r.index <= 0 THEN S
    ELSE [S EXCEPT !.index = Max(0, @ - 2)]

handlePrev(S) ==
    IF r.index <= 0 THEN S
    ELSE [S EXCEPT !.index = Max(0, @ - 1)]

handleOutroPrev(S) ==
    IF S.stepsRef.len = 0 THEN [S EXCEPT !.showOutro = FALSE]
    ELSE [S EXCEPT !.showOutro = FALSE, !.index = Max(0, @ - 1)]

\* handleIntroNext that ends an empty tour the way the last step does
handleIntroNextViaNext(S) ==
    LET S1 == [Call(S, "onNext", "intro") EXCEPT !.showIntro = FALSE]
    IN  IF S1.stepsRef.len > 0
        THEN CallStep(S1, "onEnter", StepAt(S1.stepsRef, 0))
        ELSE handleNext(S1)

handleIntroNext(S) ==
    LET S1 == [Call(S, "onNext", "intro") EXCEPT !.showIntro = FALSE]
    IN  IF S1.stepsRef.len > 0
        THEN CallStep(S1, "onEnter", StepAt(S1.stepsRef, 0))
        ELSE handleClose(S1)

\* the outro's primary button: () => { outro.onNext?.(); handleClose(); }
handleOutroNext(S) == handleClose(Call(S, "onNext", "outro"))

-----------------------------------------------------------------------------
(* StepTour: the effects, in declaration order.  S is the store, R the     *)
(* closure of the render being committed, r the one before; first holds at *)
(* the mount, when every effect runs.                                      *)

\* useEffect(() => { stepsRef.current = steps }, [steps])
SyncStepsRef(S) == [S EXCEPT !.stepsRef = steps]

\* the reset effect comparing with > instead of >=
ResetIndexEffectStrict(S, R, first) ==
    IF (first \/ <<R.open, R.index, R.len>> # <<r.open, r.index, r.len>>)
       /\ R.open /\ R.index > S.stepsRef.len
    THEN [S EXCEPT !.index = 0]
    ELSE S

\* useEffect(..., [open, index, steps.length]): reset index if steps shrank
ResetIndexEffect(S, R, first) ==
    IF (first \/ <<R.open, R.index, R.len>> # <<r.open, r.index, r.len>>)
       /\ R.open /\ R.index >= S.stepsRef.len
    THEN [S EXCEPT !.index = 0]
    ELSE S

\* useEffect(..., [open, intro]): reset when closed, else the enter-latch
OpenEffect(S, R, first) ==
    IF ~(first \/ <<R.open, R.intro>> # <<r.open, r.intro>>) THEN S
    ELSE IF ~R.open
         THEN [S EXCEPT !.index = 0, !.showIntro = FALSE,
                        !.showOutro = FALSE, !.latch = FALSE]
    ELSE IF S.latch THEN S
    ELSE IF R.intro # 0
         THEN Call([S EXCEPT !.latch = TRUE, !.showIntro = TRUE],
                   "onEnter", "intro")
         ELSE CallStep([S EXCEPT !.latch = TRUE], "onEnter",
                       StepAt(S.stepsRef, 0))

\* useEffect(..., [index, open, showIntro]): the step's onEnter
EnterEffect(S, R, first) ==
    IF (first \/ <<R.index, R.open, R.showIntro>>
                    # <<r.index, r.open, r.showIntro>>)
       /\ R.open /\ ~R.showIntro
    THEN CallStep(S, "onEnter", StepAt(S.stepsRef, R.index))
    ELSE S

NoSaved == "(no cleanup)"

\* the scroll-lock effect whose cleanup clears the style
ScrollLockEffectClear(L, R, first) ==
    IF ~(first \/ R.open # r.open) THEN L
    ELSE LET Lc == IF L.saved # NoSaved
                   THEN [overflow |-> "", saved |-> NoSaved]
                   ELSE L
         IN  IF ~R.open THEN Lc
             ELSE [overflow |-> "hidden", saved |-> Lc.overflow]

\* useEffect(..., [open]): lock background scroll; L is the style and the
\* overflow the cleanup of the run before holds
ScrollLockEffect(L, R, first) ==
    IF ~(first \/ R.open # r.open) THEN L
    ELSE LET Lc == IF L.saved # NoSaved
                   THEN [overflow |-> L.saved, saved |-> NoSaved]
                   ELSE L
         IN  IF ~R.open THEN Lc
             ELSE [overflow |-> "hidden", saved |-> Lc.overflow]

\* const current = useMemo(() => ..., [open, showIntro, index])
Current(sref, first) ==
    IF first \/ <<open, showIntro, index>> # <<r.open, r.showIntro, r.index>>
    THEN IF open /\ ~showIntro THEN StepAt(sref, index) ELSE None
    ELSE r.current

\* the closure of a render of StepTour with the props and state of now
Closure(sref, first) ==
    [open |-> open, index |-> index, showIntro |-> showIntro,
     showOutro |-> showOutro, intro |-> intro, outro |-> outro,
     len |-> steps.len, current |-> Current(sref, first)]

-----------------------------------------------------------------------------
(* HighlightTour *)

Selectors == 0..(MaxSteps - 1)
MaxGen == 2

\* selector of a step descriptor
Selector(d) == d.i

NoEl == [sel |-> -1, gen |-> 0]
El(sel, gen) == [sel |-> sel, gen |-> gen]

NoRect == [left |-> 0, top |-> 0, width |-> -1, height |-> -1]
\* getBoundingClientRect() of an element that is not in the document
ZeroBox == [left |-> 0, top |-> 0, width |-> 0, height |-> 0]

NoSel == -1

HLUnmounted ==
    [mounted |-> FALSE, targetEl |-> NoEl, rect |-> NoRect,
     observers |-> {}, tracking |-> NoEl,
     cSel |-> NoSel, cTargetEl |-> NoEl, cRect |-> NoRect,
     cViewport |-> [w |-> 0, h |-> 0], dirty |-> FALSE]

\* targetEl.getBoundingClientRect() in document D with layout g
Measure(el, D, g) == IF D[el.sel] = el.gen THEN g ELSE ZeroBox

\* findTarget of the acquisition effect, looking up selector sel in D
findTarget(H, sel, D) ==
    IF D[sel] # 0 THEN [H EXCEPT !.targetEl = El(sel, D[sel])] ELSE H

\* the acquisition effect without the cleanup that disconnects its observer
AcquireEffectLeaky(H, sel, D, first) ==
    IF ~(first \/ sel # H.cSel) THEN H
    ELSE IF D[sel] # 0 THEN findTarget(H, sel, D)
         ELSE IF hasMO THEN [H EXCEPT !.observers = @ \cup {sel}]
         ELSE H

\* useEffect(..., [open, targetSelector]): target acquisition (open is true);
\* observers holds the selector of every connected MutationObserver
AcquireEffect(H, sel, D, first) ==
    IF ~(first \/ sel # H.cSel) THEN H
    ELSE LET \* cleanup of the run before: () => observer.disconnect()
             Hc == [H EXCEPT !.observers = @ \ {H.cSel}]
         IN  IF D[sel] # 0 THEN findTarget(Hc, sel, D)
             ELSE IF hasMO THEN [Hc EXCEPT !.observers = @ \cup {sel}]
             ELSE Hc

\* an observer that is not told of the insertion (observe without subtree)
ObserverCallbackShallow(H, D) == H

\* the MutationObserver callbacks, after a mutation batch that leaves D: each
\* connected observer looks its selector up again and disconnects when found
ObserverCallback(H, D) ==
    LET found == {o \in H.observers : D[o] # 0}
    IN  IF found = {} THEN H
        ELSE [findTarget(H, CHOOSE o \in found : \A q \in found : q <= o, D)
                EXCEPT !.observers = @ \ found]

\* update of the geometry effect: setRect(targetEl.getBoundingClientRect())
update(H, D, g) ==
    IF H.tracking = NoEl THEN H
    ELSE [H EXCEPT !.rect = Measure(H.tracking, D, g)]

\* useLayoutEffect(..., [open, targetEl]): geometry tracking (open is true);
\* tEl is the targetEl of the render being committed
TrackEffect(H, tEl, D, g, first) ==
    IF ~(first \/ tEl # H.cTargetEl) THEN H
    ELSE IF tEl = NoEl THEN [H EXCEPT !.tracking = NoEl]
    ELSE update([H EXCEPT !.tracking = tEl], D, g)

\* one render of HighlightTour with targetSelector sel, and its effects;
\* the setRect of the layout effect is rendered before the browser paints
RenderHighlight(H, sel, D, g, vp) ==
    LET first == ~H.mounted
        H0 == IF first THEN [HLUnmounted EXCEPT !.mounted = TRUE] ELSE H
        tEl == H0.targetEl
        H1 == TrackEffect(H0, tEl, D, g, first)
        H2 == AcquireEffect(H1, sel, D, first)
    IN  [H2 EXCEPT !.cSel = sel, !.cTargetEl = tEl, !.cRect = H2.rect,
                   !.cViewport = vp, !.dirty = (H2.targetEl # tEl)]

\* if (!open || !rect) return null
Displayed == hl.mounted /\ hl.cRect # NoRect

TooltipWidthReserve == 320
TooltipHeightReserve == 160
TooltipMargin == 16
TooltipGap == 12

\* tooltipLeft without the lower clamp
tooltipLeftNoFloor(rect, vp) ==
    Min(rect.left, Max(TooltipMargin, vp.w - TooltipWidthReserve))

\* Math.min(Math.max(rect.left, 16), Math.max(16, viewportWidth - 320))
tooltipLeft(rect, vp) ==
    Min(Max(rect.left, TooltipMargin),
        Max(TooltipMargin, vp.w - TooltipWidthReserve))

\* Math.min(rect.bottom + 12, viewportHeight - 160)
tooltipTop(rect, vp) ==
    Min(rect.top + rect.height + TooltipGap, vp.h - TooltipHeightReserve)

-----------------------------------------------------------------------------
(* The environment's values *)

Boxes ==
    { [left |-> 100, top |-> 100, width |-> 200, height |-> 40],
      [left |-> 1200, top |-> 690, width |-> 80, height |-> 30] }

Viewports == { [w |-> 1280, h |-> 720], [w |-> 320, h |-> 480] }

Event(ev, via) == [ev |-> ev, via |-> via, from |-> Shown, i |-> r.index]

-----------------------------------------------------------------------------
(* Initial state: before StepTour is mounted *)

\* the component, not yet mounted
InitTour ==
    /\ index = 0
    /\ showIntro = FALSE
    /\ showOutro = FALSE
    /\ introShownRef = FALSE
    /\ stepsRef = steps
    /\ mounted = FALSE
    /\ r = [open |-> FALSE, index |-> 0, showIntro |-> FALSE,
            showOutro |-> FALSE, intro |-> 0, outro |-> FALSE, len |-> 0,
            current |-> None]
    /\ stDirty = TRUE
    /\ hl = HLUnmounted
    /\ scroll = [overflow |-> prior, saved |-> NoSaved]
    /\ log = << >>
    /\ last = [ev |-> "mount", via |-> "caller", from |-> "none", i |-> 0]

\* any caller, on a page that holds some of the steps' targets and stays as
\* it is
Init ==
    /\ open \in BOOLEAN
    /\ steps \in {l \in StepLists : l.ver = 0}
    /\ intro \in {0, 1}
    /\ outro \in BOOLEAN
    /\ dom \in [Selectors -> {0, 1}]
    /\ geom = [left |-> 100, top |-> 100, width |-> 200, height |-> 40]
    /\ viewport = [w |-> 1280, h |-> 720]
    /\ hasMO = TRUE
    /\ prior = ""
    /\ InitTour

\* a caller with a fixed list of steps, on any page
InitPage ==
    /\ open \in BOOLEAN
    /\ steps = [ver |-> 0, len |-> PageSteps]
    /\ intro \in {0, 1}
    /\ outro = FALSE
    /\ dom \in [Selectors -> {0, 1}]
    /\ geom \in Boxes
    /\ viewport \in Viewports
    /\ hasMO \in BOOLEAN
    /\ prior = ""
    /\ InitTour

-----------------------------------------------------------------------------
(* React: one render pass, its commit and its effects *)

Quiescent == mounted /\ ~stDirty /\ ~hl.dirty

\* StepTour renders (and with it its child), then the effects run: the
\* child's first, then StepTour's in declaration order
RenderStepTour ==
    LET first == ~mounted
        sref == IF first THEN steps ELSE stepsRef
        R == Closure(sref, first)
        S0 == [Store EXCEPT !.stepsRef = sref]
        S1 == SyncStepsRef(S0)
        S2 == ResetIndexEffect(S1, R, first)
        S3 == OpenEffect(S2, R, first)
        S4 == EnterEffect(S3, R, first)
    IN  /\ r' = R
        /\ mounted' = TRUE
        /\ hl' = IF ShownBy(R) = "step"
                 THEN RenderHighlight(hl, Selector(R.current), dom, geom,
                                      viewport)
                 ELSE HLUnmounted
        /\ Apply(S4)
        /\ scroll' = ScrollLockEffect(scroll, R, first)
        /\ stDirty' = (<<S4.index, S4.showIntro, S4.showOutro>>
                         # <<R.index, R.showIntro, R.showOutro>>)

\* only HighlightTour renders: its own state changed
RenderHighlightOnly ==
    /\ hl' = RenderHighlight(hl, hl.cSel, dom, geom, viewport)
    /\ UNCHANGED <<open, index, showIntro, showOutro, introShownRef,
                   stepsRef, mounted, r, stDirty, scroll, log>>

Render ==
    /\ stDirty \/ hl.dirty
    /\ IF stDirty THEN RenderStepTour ELSE RenderHighlightOnly
    /\ UNCHANGED <<steps, intro, outro, dom, geom, viewport, hasMO, prior,
                   last>>

-----------------------------------------------------------------------------
(* The caller *)

CallerOpen ==
    /\ Quiescent /\ ~open
    /\ open' = TRUE
    /\ log' = << >>
    /\ last' = Event("open", "caller")
    /\ stDirty' = TRUE
    /\ UNCHANGED <<steps, intro, outro, index, showIntro, showOutro,
                   introShownRef, stepsRef, mounted, r, hl, dom, geom,
                   viewport, hasMO, scroll, prior>>

CallerHide ==
    /\ Quiescent /\ open
    /\ open' = FALSE
    /\ log' = << >>
    /\ last' = Event("hide", "caller")
    /\ stDirty' = TRUE
    /\ UNCHANGED <<steps, intro, outro, index, showIntro, showOutro,
                   introShownRef, stepsRef, mounted, r, hl, dom, geom,
                   viewport, hasMO, scroll, prior>>

CallerSetSteps(l) ==
    /\ Quiescent /\ l # steps
    /\ steps' = l
    /\ log' = << >>
    /\ last' = Event("steps", "caller")
    /\ stDirty' = TRUE
    /\ UNCHANGED <<open, intro, outro, index, showIntro, showOutro,
                   introShownRef, stepsRef, mounted, r, hl, dom, geom,
                   viewport, hasMO, scroll, prior>>

\* a render of the caller with the same props; an intro written inline, as
\* in the README, is then a new object.  Not an event of the tour: last and
\* log stay.
CallerRerender(newIntro) ==
    /\ Quiescent
    /\ intro' = IF newIntro /\ intro # 0 THEN 3 - intro ELSE intro
    /\ stDirty' = TRUE
    /\ UNCHANGED <<open, steps, outro, index, showIntro, showOutro,
                   introShownRef, stepsRef, mounted, r, hl, dom, geom,
                   viewport, hasMO, scroll, prior, log, last>>

-----------------------------------------------------------------------------
(* The user: buttons and keys *)

\* the handler a rendered button carries; the buttons of a step are those
\* HighlightTour renders, and it renders nothing without a rect
HasButton(b) ==
    CASE Shown = "intro" -> b \in {"close", "advance"}
      [] Shown = "outro" -> b \in {"close", "advance"}
                            \/ (b = "retreat" /\ r.index > 0)
      [] Shown = "step"  -> Displayed
                            /\ (b \in {"close", "advance"}
                                \/ (b = "retreat" /\ r.index > 0))
      [] OTHER -> FALSE

Handler(b, S) ==
    CASE b = "close" -> handleClose(S)
      [] b = "advance" /\ Shown = "intro" -> handleIntroNext(S)
      [] b = "advance" /\ Shown = "outro" -> handleOutroNext(S)
      [] b = "advance" -> handleNext(S)
      [] b = "retreat" /\ Shown = "outro" -> handleOutroPrev(S)
      [] OTHER -> handlePrev(S)

Handled(S) ==
    /\ Apply(S)
    /\ stDirty' = (<<S.index, S.showIntro, S.showOutro, S.open>>
                     # <<index, showIntro, showOutro, open>>)
    /\ UNCHANGED <<steps, intro, outro, mounted, r, hl, dom, geom, viewport,
                   hasMO, scroll, prior>>

Click(b) ==
    /\ Quiescent /\ HasButton(b)
    /\ last' = Event(b, "click")
    /\ Handled(Handler(b, [Store EXCEPT !.log = << >>]))

\* the keydown listener exists while a HighlightTour is mounted (open)
Listening == hl.mounted

\* handleKey whose ArrowRight test also takes ArrowLeft
handleKeyEitherArrow(k, S) ==
    CASE k = "Escape" -> handleClose(S)
      [] k \in {"ArrowRight", "ArrowLeft"} -> handleNext(S)
      [] OTHER -> S

\* handleKey of HighlightTour, with the props StepTour passes:
\* onClose = handleClose, onNext = handleNext,
\* onPrev = index > 0 ? handlePrev : undefined
handleKey(k, S) ==
    CASE k = "Escape" -> handleClose(S)
      [] k = "ArrowRight" -> handleNext(S)
      [] k = "ArrowLeft" /\ r.index > 0 -> handlePrev(S)
      [] OTHER -> S

Intent(k) ==
    CASE k = "Escape" -> "close"
      [] k = "ArrowRight" -> "advance"
      [] OTHER -> "retreat"

Keys == {"Escape", "ArrowRight", "ArrowLeft"}

KeyDown(k) ==
    /\ Quiescent
    /\ last' = Event(Intent(k), "key")
    /\ Handled(LET S == [Store EXCEPT !.log = << >>]
               IN  IF Listening THEN handleKey(k, S) ELSE S)

-----------------------------------------------------------------------------
(* The page: document mutations and layout changes *)

\* the identity of an element inserted now: one no reference still holds
FreshGen(s) ==
    CHOOSE g \in 1..(MaxGen + 3) :
        /\ El(s, g) \notin {hl.targetEl, hl.tracking, hl.cTargetEl}
        /\ \A h \in 1..(g - 1) :
              El(s, h) \in {hl.targetEl, hl.tracking, hl.cTargetEl}

Mutated(D) ==
    LET H == ObserverCallback(hl, D)
    IN  /\ dom' = D
        /\ hl' = [H EXCEPT !.dirty = @ \/ H.targetEl # hl.targetEl]
        /\ log' = << >>
        /\ UNCHANGED <<open, steps, intro, outro, index, showIntro,
                       showOutro, introShownRef, stepsRef, mounted, r,
                       stDirty, geom, viewport, hasMO, scroll, prior>>

DomInsert(s) ==
    /\ Quiescent /\ dom[s] = 0 /\ FreshGen(s) <= MaxGen
    /\ last' = Event("insert", "page")
    /\ Mutated([dom EXCEPT ![s] = FreshGen(s)])

DomRemove(s) ==
    /\ Quiescent /\ dom[s] # 0
    /\ last' = Event("remove", "page")
    /\ Mutated([dom EXCEPT ![s] = 0])

\* the ResizeObserver callback and the scroll / resize listeners all call
\* update; a resize also changes the viewport
LayoutChange(g, vp) ==
    /\ Quiescent /\ <<g, vp>> # <<geom, viewport>>
    /\ geom' = g
    /\ viewport' = vp
    /\ hl' = [update(hl, dom, g) EXCEPT !.dirty = @ \/ hl.tracking # NoEl]
    /\ log' = << >>
    /\ last' = Event("layout", "page")
    /\ UNCHANGED <<open, steps, intro, outro, index, showIntro, showOutro,
                   introShownRef, stepsRef, mounted, r, stDirty, dom,
                   hasMO, scroll, prior>>

\* the ResizeObserver callback when the box of the observed element changed
\* without a change of the layout: the element left the document
ResizeObserved ==
    /\ Quiescent /\ hl.tracking # NoEl
    /\ Measure(hl.tracking, dom, geom) # hl.rect
    /\ hl' = [update(hl, dom, geom) EXCEPT !.dirty = TRUE]
    /\ log' = << >>
    /\ last' = Event("resize", "page")
    /\ UNCHANGED <<open, steps, intro, outro, index, showIntro, showOutro,
                   introShownRef, stepsRef, mounted, r, stDirty, dom, geom,
                   viewport, hasMO, scroll, prior>>

-----------------------------------------------------------------------------

Caller ==
    \/ CallerOpen
    \/ CallerHide
    \/ \E l \in StepLists : CallerSetSteps(l)
    \/ \E b \in BOOLEAN : CallerRerender(b)

User ==
    \/ \E b \in {"close", "advance", "retreat"} : Click(b)
    \/ \E k \in Keys : KeyDown(k)

Page ==
    \/ \E s \in Selectors : DomInsert(s)
    \/ \E s \in Selectors : DomRemove(s)
    \/ \E g \in Boxes, vp \in Viewports : LayoutChange(g, vp)
    \/ ResizeObserved

Next == Render \/ Caller \/ User

Spec == Init /\ [][Next]_vars

NextPage == Render \/ CallerOpen \/ User \/ Page

SpecPage == InitPage /\ [][NextPage]_vars

-----------------------------------------------------------------------------
(* Reading the log *)

\* a callback without the version of the list its descriptor came from
Sig(e) == <<e.cb, e.who, e.i>>
Sigs(seq) == [k \in 1..Len(seq) |-> Sig(seq[k])]

Enter(i) == <<"onEnter", "step", i>>
NextOf(i) == <<"onNext", "step", i>>
OnClose == <<"onClose", "tour", -1>>

Opened == last.ev \in {"open", "mount"} /\ open

\* the last event called handler h of the phase it was in
Did(ev, from) ==
    /\ last.ev = ev
    /\ last.from = from
    /\ (last.via = "click" \/ from = "step")

-----------------------------------------------------------------------------
(* A tour on one resolved step, under every layout: the tooltip placement *)

GeomBoxes ==
    [left : {-40, 16, 17, 960, 1300}, top : {-100, 508, 700},
     width : {80}, height : {40}]

GeomViewports == [w : {0, 335, 336, 1280}, h : {160, 720}]

InitGeom ==
    /\ open = TRUE
    /\ steps = [ver |-> 0, len |-> 1]
    /\ intro = 0
    /\ outro = FALSE
    /\ dom = [s \in Selectors |-> 1]
    /\ geom \in GeomBoxes
    /\ viewport \in GeomViewports
    /\ hasMO = TRUE
    /\ prior = ""
    /\ InitTour

Relayout == \E g \in GeomBoxes, vp \in GeomViewports : LayoutChange(g, vp)

NextGeom == Render \/ Relayout

SpecGeom == InitGeom /\ [][NextGeom]_vars

\* style={{ top: tooltipTop, left: tooltipLeft }} of the committed render
Tooltip ==
    [left |-> tooltipLeft(hl.cRect, hl.cViewport),
     top |-> tooltipTop(hl.cRect, hl.cViewport)]

-----------------------------------------------------------------------------
(* A tour whose forward action can be called twice before it renders again *)

\* onNext of the step shown is called twice with no render in between: both
\* calls are the handleNext of the committed render
AdvanceTwice ==
    /\ Quiescent /\ Shown = "step" /\ HasButton("advance")
    /\ last' = Event("advance twice", "click")
    /\ Handled(handleNext(handleNext([Store EXCEPT !.log = << >>])))

InitBurst ==
    /\ open \in BOOLEAN
    /\ steps \in {l \in StepLists : l.ver = 0 /\ l.len > 0}
    /\ intro = 0
    /\ outro \in BOOLEAN
    /\ dom = [s \in Selectors |-> 1]
    /\ geom = [left |-> 100, top |-> 100, width |-> 200, height |-> 40]
    /\ viewport = [w |-> 1280, h |-> 720]
    /\ hasMO = TRUE
    /\ prior = ""
    /\ InitTour

Relist == \E l \in StepLists : CallerSetSteps(l)

NextBurst == Render \/ CallerOpen \/ Relist \/ User \/ AdvanceTwice

SpecBurst == InitBurst /\ [][NextBurst]_vars

-----------------------------------------------------------------------------
(* A tour whose keys can be pressed while a render is pending *)

\* a key is pressed after the effects of a commit asked for a render and
\* before that render: the listener is the one of the committed render
\* (the index such presses can run up is cut off beyond MaxSteps)
KeyDownPending(k) ==
    /\ mounted /\ stDirty /\ Listening
    /\ index <= MaxSteps
    /\ last' = Event(Intent(k), "key")
    /\ Apply(handleKey(k, [Store EXCEPT !.log = << >>]))
    /\ UNCHANGED <<steps, intro, outro, mounted, r, stDirty, hl, dom, geom,
                   viewport, hasMO, scroll, prior>>

InitRace ==
    /\ open \in BOOLEAN
    /\ steps \in {l \in StepLists : l.ver = 0}
    /\ intro \in {0, 1}
    /\ outro \in BOOLEAN
    /\ dom = [s \in Selectors |-> 1]
    /\ geom = [left |-> 100, top |-> 100, width |-> 200, height |-> 40]
    /\ viewport = [w |-> 1280, h |-> 720]
    /\ hasMO = TRUE
    /\ prior = ""
    /\ InitTour

Early == \E k \in Keys : KeyDownPending(k)

NextRace == Render \/ CallerOpen \/ User \/ Early

SpecRace == InitRace /\ [][NextRace]_vars

-----------------------------------------------------------------------------
(* A tour opened and closed on a page that styles its own overflow *)

Overflows == {"", "auto", "hidden", "scroll"}

\* the page sets document.documentElement.style.overflow; it does so while
\* the tour is closed
SetOverflow(v) ==
    /\ Quiescent /\ ~open /\ v # scroll.overflow
    /\ scroll' = [scroll EXCEPT !.overflow = v]
    /\ prior' = v
    /\ log' = << >>
    /\ last' = Event("style", "page")
    /\ UNCHANGED <<open, steps, intro, outro, index, showIntro, showOutro,
                   introShownRef, stepsRef, mounted, r, stDirty, hl, dom,
                   geom, viewport, hasMO>>

InitScroll ==
    /\ open \in BOOLEAN
    /\ steps = [ver |-> 0, len |-> PageSteps]
    /\ intro \in {0, 1}
    /\ outro \in BOOLEAN
    /\ dom = [s \in Selectors |-> 1]
    /\ geom = [left |-> 100, top |-> 100, width |-> 200, height |-> 40]
    /\ viewport = [w |-> 1280, h |-> 720]
    /\ hasMO = TRUE
    /\ prior \in Overflows
    /\ InitTour

Style == \E v \in Overflows : SetOverflow(v)

NextScroll == Render \/ CallerOpen \/ CallerHide \/ User \/ Style

SpecScroll == InitScroll /\ [][NextScroll]_vars

-----------------------------------------------------------------------------
(* Claims *)

\* C1: advance() from Step(i) with a next step invokes steps[i].onNext, moves
\* to Step(i+1) and then invokes steps[i+1].onEnter, nothing else; and for
\* steps = [A, B] without intro and outro the trace is A.onEnter once at the
\* open, then A.onNext, B.onEnter, then B.onNext, onClose.
C1_AdvanceTrace ==
    /\ (Did("advance", "step") /\ last.i + 1 < steps.len /\ Quiescent)
         => /\ Sigs(log) = <<NextOf(last.i), Enter(last.i + 1)>>
            /\ Shown = "step" /\ r.index = last.i + 1
    /\ (steps.len = 2 /\ intro = 0 /\ ~outro /\ Quiescent)
         => /\ Opened => Sigs(log) = <<Enter(0)>>
            /\ (Did("advance", "step") /\ last.i = 1)
                 => Sigs(log) = <<NextOf(1), OnClose>> /\ Shown = "none"

\* C2: from the open until the first navigation, whatever the number of
\* renders, exactly one onEnter has been invoked: the intro's if there is an
\* intro, else that of steps[0].
C2_InitialEnterOnce ==
    (Opened /\ Quiescent)
      => Sigs(log) = IF intro # 0 THEN << <<"onEnter", "intro", -1>> >>
                       ELSE IF steps.len > 0 THEN <<Enter(0)>>
                       ELSE << >>

C3_State ==
    /\ (Did("close", "intro") \/ Did("close", "step") \/ Did("close", "outro"))
         => /\ index = 0 /\ ~showIntro /\ ~showOutro /\ ~introShownRef
            /\ ~open
            /\ Sigs(log) = <<OnClose>>
    /\ (mounted /\ ~stDirty /\ ~open) => (Shown = "none" /\ ~hl.mounted)

C3_Step == (~open /\ ~open') => (log' = log \/ log' = << >>)

\* C3: close() from Intro, Step(i) or Outro leaves index = 0, showIntro =
\* showOutro = false, the latch cleared and the tour closed (the caller's
\* onClose invoked once); while it is closed nothing is shown and no callback
\* is invoked.
C3_CloseResets == [] C3_State /\ [][C3_Step]_vars

C3_Witness == Did("close", "outro") /\ last.i > 0 /\ Quiescent

\* C4: advance() from the last step without an outro invokes that step's
\* onNext, then the caller's onClose, once each, and the tour is closed.
C4_LastStepCloses ==
    (Did("advance", "step") /\ last.i = steps.len - 1 /\ ~outro)
      => /\ Sigs(log) = <<NextOf(last.i), OnClose>>
         /\ ~open /\ index = 0 /\ ~showIntro /\ ~showOutro
         /\ (~stDirty => Shown = "none")

C4_Witness ==
    /\ Did("advance", "step") /\ last.i = steps.len - 1 /\ ~outro
    /\ last.i > 0 /\ Quiescent

\* C5: retreat() at Step(0) changes neither index, showIntro, showOutro nor
\* the latch, invokes no callback and leaves Step(0) displayed.
C5_RetreatAtFirstStep ==
    (last.ev = "retreat" /\ last.from = "step" /\ last.i = 0)
      => /\ index = 0 /\ ~showIntro /\ ~showOutro /\ introShownRef /\ open
         /\ log = << >>
         /\ (~stDirty => (Shown = "step" /\ r.index = 0))

C5_Witness ==
    last.ev = "retreat" /\ last.from = "step" /\ last.i = 0 /\ Quiescent

Shrunk ==
    /\ last.ev = "steps" /\ last.from = "step"
    /\ 0 < steps.len /\ steps.len <= last.i
    /\ Quiescent

\* C6 as claimed: when the list shrinks to a non-zero length <= i at Step(i),
\* the tour resets to Step(0) and neither onNext nor onEnter is invoked.
C6_ShrinkSilent == Shrunk => (Shown = "step" /\ r.index = 0 /\ log = << >>)

\* C6 as amended: the tour resets to Step(0), no onNext is invoked, and the
\* one callback invoked is the onEnter of steps[0] of the new list.
C6_ShrinkResets ==
    Shrunk => /\ Shown = "step" /\ r.index = 0 /\ index = 0
              /\ r.current = StepAt(steps, 0)
              /\ log = <<Cb("onEnter", "step", StepAt(steps, 0))>>

C6_Witness == Shrunk /\ last.i = MaxSteps - 1 /\ steps.len = 1

\* C7: with an intro, no steps and an outro, advance() from Intro invokes the
\* intro's onNext and the caller's onClose and closes the tour; the outro is
\* not shown and its onEnter is not invoked.
C7_IntroToClosed ==
    (Did("advance", "intro") /\ steps.len = 0 /\ outro)
      => /\ Sigs(log) = << <<"onNext", "intro", -1>>, OnClose >>
         /\ ~open /\ ~showOutro
         /\ \A k \in 1..Len(log) : log[k].who # "outro"
         /\ (~stDirty => Shown = "none")

C7_Witness ==
    Did("advance", "intro") /\ steps.len = 0 /\ outro /\ Quiescent

\* C8 as claimed: the tooltip's left is in [16, viewportWidth - 320] and its
\* top is at most viewportHeight - 160.
C8_TooltipInViewport ==
    Displayed
      => /\ 16 <= Tooltip.left
         /\ Tooltip.left <= hl.cViewport.w - 320
         /\ Tooltip.top <= hl.cViewport.h - 160

\* C8 as amended: the tooltip's left is in [16, max(16, viewportWidth - 320)],
\* hence in [16, viewportWidth - 320] when viewportWidth >= 336, and its top
\* is at most viewportHeight - 160.
C8_TooltipClamped ==
    Displayed
      => /\ 16 <= Tooltip.left
         /\ Tooltip.left <= Max(16, hl.cViewport.w - 320)
         /\ (hl.cViewport.w >= 336 => Tooltip.left <= hl.cViewport.w - 320)
         /\ Tooltip.top <= hl.cViewport.h - 160

C8_Witness ==
    /\ Displayed /\ ~hl.dirty
    /\ hl.cViewport.w < 336 /\ hl.cRect.left > 16
    /\ hl.cRect.top + hl.cRect.height + 12 > hl.cViewport.h - 160

C9_State ==
    /\ (hl.mounted /\ hl.targetEl = NoEl) => (~Displayed /\ hl.rect = NoRect)
    /\ (hl.mounted /\ ~hl.dirty /\ hl.targetEl # NoEl) => Displayed

C9_Step ==
    (/\ hasMO /\ hl.mounted /\ hl.targetEl = NoEl
     /\ dom[hl.cSel] = 0 /\ dom'[hl.cSel] # 0)
      => /\ hl'.targetEl = El(hl.cSel, dom'[hl.cSel])
         /\ hl'.observers = {}
         /\ hl'.dirty

C10_KeysInEveryPhase ==
    /\ (last.via = "key" /\ last.ev = "close"
        /\ last.from \in {"intro", "step", "outro"})
         => (~open /\ Sigs(log) = <<OnClose>>)
    /\ (last.via = "key" /\ last.ev = "advance" /\ last.from = "intro")
         => ~showIntro
    /\ (last.via = "key" /\ last.from = "none")
         => (log = << >> /\ ~open)

\* C11: once a render with open = true is committed, in whichever phase, the
\* document's overflow is "hidden" and the effect holds the value the page
\* had before; once a render with open = false is committed, the overflow is
\* again that value; and a committed render is one of the caller's open.
C11_ScrollLocked ==
    /\ (mounted /\ r.open)
         => (scroll.overflow = "hidden" /\ scroll.saved = prior)
    /\ (mounted /\ ~r.open)
         => scroll = [overflow |-> prior, saved |-> NoSaved]
    /\ (mounted /\ ~stDirty) => r.open = open

C11_Witness ==
    /\ Did("close", "outro") /\ Quiescent
    /\ prior = "scroll" /\ scroll.overflow = "scroll"

\* C12: after the caller turned open from false to true and the renders have
\* settled, the phase is Intro if an intro is supplied, else Step(0) if steps
\* is not empty, else the tour is closed: nothing is shown and open is false
\* again.
C12_InitialPhase ==
    (last.ev = "open" /\ Quiescent)
      => CASE intro # 0 -> Shown = "intro"
           [] steps.len > 0 -> Shown = "step" /\ r.index = 0
           [] OTHER -> Shown = "none" /\ ~open

Retreated == Did("retreat", "step") /\ last.i > 0 /\ Quiescent

\* C13 as claimed: retreat() from Step(i), i > 0, moves to Step(i-1) and no
\* callback is invoked, the onEnter of steps[i-1] included.
C13_RetreatSilent ==
    Retreated => (Shown = "step" /\ r.index = last.i - 1 /\ log = << >>)

\* C13 as amended: retreat() from Step(i), i > 0, moves to Step(i-1); no
\* onNext is invoked, and the one callback invoked is the onEnter of
\* steps[i-1], as that step becomes the active one.
C13_RetreatEnters ==
    Retreated => /\ Shown = "step" /\ r.index = last.i - 1
                 /\ index = last.i - 1
                 /\ r.current = StepAt(stepsRef, last.i - 1)
                 /\ log = <<Cb("onEnter", "step", StepAt(stepsRef, last.i - 1))>>

C13_Witness == Retreated /\ last.i = MaxSteps - 1 /\ last.via = "key"

\* C14: retreat() from Outro shows the last step, Step(length(steps) - 1),
\* when steps is not empty, and closes the tour when steps is empty.
C14_OutroRetreat ==
    (Did("retreat", "outro") /\ Quiescent)
      => IF steps.len > 0
         THEN Shown = "step" /\ r.index = steps.len - 1
         ELSE Shown = "none" /\ ~open

\* C15: close() in the Intro invokes the intro's onClose, close() in the Outro
\* invokes the outro's onClose (each descriptor defining one), and close() in
\* a step invokes neither.
C15_PhaseOnClose ==
    /\ Did("close", "intro")
         => \E k \in 1..Len(log) : Sig(log[k]) = <<"onClose", "intro", -1>>
    /\ Did("close", "outro")
         => \E k \in 1..Len(log) : Sig(log[k]) = <<"onClose", "outro", -1>>
    /\ Did("close", "step")
         => \A k \in 1..Len(log) :
               log[k].cb = "onClose" => log[k].who = "tour"

\* C16: advance() from the Intro with steps not empty invokes the intro's
\* onNext, shows Step(0) and invokes steps[0].onEnter once, after the intro's
\* onNext; and while the Intro is the phase shown, no step's onEnter has been
\* invoked.
C16_IntroAdvance ==
    /\ (Did("advance", "intro") /\ steps.len > 0 /\ Quiescent)
         => /\ Sigs(log) = << <<"onNext", "intro", -1>>, Enter(0) >>
            /\ Shown = "step" /\ r.index = 0
    /\ (Shown = "intro" /\ Quiescent)
         => \A k \in 1..Len(log) : log[k].who # "step"

\* C17: while the selector of the active step matches no element, neither
\* highlight nor tooltip is rendered, also when the step was reached from a
\* step whose target was resolved.
C17_UnresolvedShowsNothing ==
    (Shown = "step" /\ Quiescent /\ dom[Selector(r.current)] = 0)
      => ~Displayed

\* C18: when the element resolved for the active step is no longer in the
\* document, nothing is rendered against it and it is no longer the element
\* measured.
C18_RemovedTargetDetected ==
    (/\ Quiescent /\ hl.mounted
     /\ hl.targetEl # NoEl /\ hl.targetEl.sel = hl.cSel
     /\ dom[hl.cSel] # hl.targetEl.gen)
      => (~Displayed /\ hl.tracking = NoEl)

C19_State ==
    /\ Cardinality(hl.observers) <= 1
    /\ hl.observers # {}
         => /\ hasMO /\ hl.mounted /\ r.open /\ Shown = "step"
            /\ hl.observers = {hl.cSel}
            /\ hl.cSel = Selector(r.current)
            /\ dom[hl.cSel] = 0

C19_Step ==
    /\ (hl.observers # {} /\ dom'[hl.cSel] # 0) => hl'.observers = {}
    /\ (hl'.targetEl # hl.targetEl /\ hl'.targetEl # NoEl)
         => /\ hl'.mounted /\ ShownBy(r') = "step"
            /\ hl'.targetEl = El(hl'.cSel, dom'[hl'.cSel])
            /\ hl'.cSel = Selector(r'.current)

\* C19: at most one MutationObserver is connected; one is connected only
\* while the tour shows a step whose selector matches no element, and it is
\* the observer of that step's selector; the mutation that makes the selector
\* match disconnects it; and a target is only ever set to the element the
\* selector of the step then active matches.
C19_ObserverScoped == [] C19_State /\ [][C19_Step]_vars

C19_Witness ==
    /\ Did("advance", "step") /\ last.via = "key" /\ Quiescent
    /\ dom[0] = 0 /\ hl.observers = {1}

\* C20: whenever the tour is in a step phase (open, neither Intro nor Outro)
\* of a list of steps it has taken over, the index is within that list; also
\* after two advance() calls with no render between them.
C20_IndexInRange ==
    (/\ mounted /\ open /\ ~showIntro /\ ~showOutro
     /\ stepsRef = steps /\ steps.len > 0)
      => (0 <= index /\ index < steps.len)

\* C21: showIntro and showOutro are never both true, whatever the order of
\* opens, key presses, clicks, renders and effects.
C21_OnePhase == ~(showIntro /\ showOutro)

\* C22: while the Intro or the Outro is shown there is no HighlightTour, hence
\* no lookup, observer or tracked element; and from the open of a tour with
\* an intro until the first navigation, no selector is looked up, no observer
\* is connected and no element is scrolled to, measured or focused.
C22_NoAcquisitionInIntro ==
    /\ Shown \in {"intro", "outro"} => hl = HLUnmounted
    /\ (Opened /\ intro # 0)
         => /\ ~hl.mounted
            /\ hl.targetEl = NoEl /\ hl.observers = {} /\ hl.tracking = NoEl

\* C23: whenever a step is shown at Step(i), the descriptor shown is element
\* i of the list of steps the caller supplied last, also after the caller
\* replaced the list by another one of the same or a greater length.
C23_CurrentFromNewestList ==
    (Shown = "step" /\ Quiescent /\ r.index < steps.len)
      => r.current = StepAt(steps, r.index)

=============================================================================
